---------------------------- MODULE Spec2Model ----------------------------
(***************************************************************************)
(* A model of the Polymarket bot dashboard page (src/app/page.tsx): the    *)
(* side normaliser, the timestamp parser, the equity-curve builder         *)
(* (buildChartData) and the merge of the two trade sources (tradesMerged), *)
(* then the page shell: the trades table and its pager, the effect of      *)
(* EquityChart that applies the chart data, and the polling (load, the     *)
(* burst effect, Refresh); and the polling of the older page               *)
(* (src/unnamed/part_000).                                                 *)
(*                                                                         *)
(* JavaScript values are modelled as follows.                              *)
(*   - a number is a record [nan, v]: NaN, or the finite integer v.  The   *)
(*     model has no infinities: every non-finite number is NaN, which is   *)
(*     all that Number.isFinite distinguishes.                             *)
(*   - money is counted in tenths of a USDC, so that 111.8 is 1118.        *)
(*   - a string is the sequence of its characters; an optional string is a *)
(*     record [def, str, typeof], def = FALSE standing for undefined/null; *)
(*     typeof is "number" for a number found where a string is expected.   *)
(*   - a timestamp of the payload is a record [kind, v] (see parseTimestamp)*)
(***************************************************************************)
EXTENDS Integers, Sequences, FiniteSets

VARIABLES
    pc,               \* which step of the modelled computation has run
    trades,           \* buildChartData: the trade list it is called with
    nowMs,            \* buildChartData: what Date.now() returns (ms)
    chart,            \* buildChartData: the returned { data, ath }
    localTrades,      \* render: state.trades
    analyticsTrades,  \* render: state.analyticsTrades
    tradesMerged,     \* render: the merged list
    rawSide,          \* normalizeSide: its argument
    sideOnce,         \* normalizeSide(rawSide)
    sideTwice,        \* normalizeSide(normalizeSide(rawSide))
    nowMsAgain,       \* buildChartData called again: what Date.now() returns then
    chartAgain,       \* buildChartData called again: the returned { data, ath }
    engine,           \* the orders Array.prototype.sort has settled on (see EngineSort)
    tradesPage,       \* DashboardPage: the stored page number of the trades table
    displayTrades,    \* render: the trades, sorted for the table
    lastApply,        \* EquityChart: lastApplyRef.current
    lastMarketSlug,   \* EquityChart: lastMarketSlugRef.current
    firstFitDone,     \* EquityChart: firstFitDoneRef.current
    seriesData,       \* the chart's equity series: the data last set
    athData,          \* the chart's ATH series: the data last set, << >> before it exists
    visibleRange,     \* the chart's time scale: the range on screen
    applications,     \* how often and when the effect has set the data (history)
    pageState,        \* DashboardPage: state, as the number of the fetch it came from; 0 is null
    error,            \* DashboardPage: error is set
    lastUpdated,      \* DashboardPage: lastUpdated (ms); 0 is null
    isAutoBurst,      \* DashboardPage: isAutoBurst
    effectFor,        \* the value of isAutoBurst the burst effect last ran for
    intervals,        \* the interval timers that are set, by the burst that set them
    ticks,            \* the burst effect's ticks
    inflight,         \* the calls of fetchState that have not settled: [id, at, initial]
    issued,           \* how many calls of fetchState were made
    newestApplied,    \* the latest-issued fetch whose outcome was applied (history)
    burst,            \* the current burst: number, start, fetches made, last fetch (history)
    idle,             \* seconds passed since the last burst ended
    mounted,          \* the page is mounted
    cancelled         \* the older page: cancelled of its polling effect

\* what only the specification of the repeated call uses
againVars == << nowMsAgain, chartAgain, engine >>

\* the trades table
pagesVars == << tradesPage, displayTrades >>

\* what only the specifications of the page shell use
\* the equity chart
chartVars == << lastApply, lastMarketSlug, firstFitDone, seriesData,
                athData, visibleRange, applications >>

\* the polling
pollVars == << pageState, error, lastUpdated, isAutoBurst, effectFor, intervals,
               ticks, inflight, issued, newestApplied, burst, idle, mounted, cancelled >>

shellVars == << pagesVars, chartVars, pollVars >>

vars == << pc, trades, nowMs, chart, localTrades, analyticsTrades,
           tradesMerged, rawSide, sideOnce, sideTwice, nowMsAgain, chartAgain, engine,
           tradesPage, displayTrades, lastApply, lastMarketSlug,
           firstFitDone, seriesData, athData, visibleRange, applications,
           pageState, error, lastUpdated, isAutoBurst, effectFor, intervals,
           ticks, inflight, issued, newestApplied, burst, idle, mounted, cancelled >>

---------------------------------------------------------------------------
(* Bounds of the model.                                                    *)

\* longest trade list handed to buildChartData
MaxTrades == 2
\* longest trade list of the second specification of buildChartData (few
\* different records, longer lists)
MaxLongTrades == 3
\* the clock runs over the seconds 0..MaxNowSec
MaxNowSec == 2
\* most records in localTrades and analyticsTrades together
MaxMergeTrades == 3
\* longest side label fed to normalizeSide
MaxSideLen == 4

---------------------------------------------------------------------------
(* JavaScript numbers.                                                     *)

NaN == [nan |-> TRUE, v |-> 0]
Num(n) == [nan |-> FALSE, v |-> n]

\* Number.isFinite
isFinite(x) == ~x.nan

\* a - b
JsSub(a, b) == IF a.nan \/ b.nan THEN NaN ELSE Num(a.v - b.v)

\* Math.floor(a / 1000)
FloorDiv1000(a) == IF a.nan THEN NaN ELSE Num(a.v \div 1000)

\* a <= b  (false when either side is NaN)
JsLeq(a, b) == ~a.nan /\ ~b.nan /\ a.v <= b.v

---------------------------------------------------------------------------
(* Strings.                                                                *)

TAB == "\t"

LowerLetters == << "a", "b", "c", "d", "e", "f", "g", "h", "i", "j", "k", "l", "m",
                   "n", "o", "p", "q", "r", "s", "t", "u", "v", "w", "x", "y", "z" >>
UpperLetters == << "A", "B", "C", "D", "E", "F", "G", "H", "I", "J", "K", "L", "M",
                   "N", "O", "P", "Q", "R", "S", "T", "U", "V", "W", "X", "Y", "Z" >>

UpperChar(c) ==
    IF \E i \in DOMAIN LowerLetters : LowerLetters[i] = c
    THEN UpperLetters[CHOOSE i \in DOMAIN LowerLetters : LowerLetters[i] = c]
    ELSE c

\* String.prototype.toUpperCase
toUpperCase(s) == [i \in 1..Len(s) |-> UpperChar(s[i])]

Undefined == [def |-> FALSE, str |-> << >>, typeof |-> "undefined"]
Str(s) == [def |-> TRUE, str |-> s, typeof |-> "string"]
\* the number 1 where a string is expected; str is its spelling
NumberOne == [def |-> TRUE, str |-> << "1" >>, typeof |-> "number"]

\* `${x}` in a template literal: undefined is spelled out
TemplateString(x) ==
    IF x.def THEN x.str ELSE << "u", "n", "d", "e", "f", "i", "n", "e", "d" >>

\* all sequences over S of length at most n
SeqsUpTo(S, n) == UNION { [1..k -> S] : k \in 0..n }

---------------------------------------------------------------------------
(* normalizeSide                                                           *)

\* raw.toUpperCase() on a truthy value that is no string: TypeError
normalizeSideThrows(raw) == raw.def /\ raw.typeof # "string"

normalizeSide_noUpper(raw) ==
    IF ~raw.def \/ raw.str = << >> THEN << >>
    ELSE IF raw.str = << "U", "P" >> THEN << "Y", "E", "S" >>
    ELSE IF raw.str = << "D", "O", "W", "N" >> THEN << "N", "O" >>
    ELSE toUpperCase(raw.str)

normalizeSide(raw) ==
    IF ~raw.def \/ raw.str = << >> THEN << >>
    ELSE LET s == toUpperCase(raw.str)
         IN  IF s = << "U", "P" >> THEN << "Y", "E", "S" >>
             ELSE IF s = << "D", "O", "W", "N" >> THEN << "N", "O" >>
             ELSE s

---------------------------------------------------------------------------
(* parseTimestamp.  A timestamp of the payload is                          *)
(*   [kind |-> "null"]     absent, null or undefined                       *)
(*   [kind |-> "unix", v]  a number: v seconds since the epoch             *)
(*   [kind |-> "iso", v]   a string Date parses: v ms since the epoch      *)
(*   [kind |-> "invalid"]  a string Date cannot parse                      *)
(* The operator gives getTime() of the Date that parseTimestamp returns.   *)

TsNull == [kind |-> "null", v |-> 0]
TsInvalid == [kind |-> "invalid", v |-> 0]
TsIso(ms) == [kind |-> "iso", v |-> ms]
TsUnix(sec) == [kind |-> "unix", v |-> sec]

parseTimestamp(ts) ==
    CASE ts.kind = "null" -> NaN
      [] ts.kind = "unix" -> Num(ts.v * 1000)
      [] ts.kind = "iso" -> Num(ts.v)
      [] OTHER -> Num(0)

\* Math.floor(parseTimestamp(t.timestamp).getTime() / 1000)
TradeSec(t) == FloorDiv1000(parseTimestamp(t.timestamp))

---------------------------------------------------------------------------
(* Number(t.pnl_usdc).  A pnl_usdc of the payload is a finite number, or   *)
(* absent (any value Number() turns into NaN).                             *)

PnlNum(n) == [kind |-> "number", v |-> n]
PnlAbsent == [kind |-> "undefined", v |-> 0]

Number(x) == IF x.kind = "number" THEN Num(x.v) ELSE NaN

---------------------------------------------------------------------------
(* Array.prototype.sort with a comparator (a, b) => key(a) - key(b).  The  *)
(* array is given as a sequence of [key, item].  The comparator returns    *)
(* NaN when either key is NaN, and sort reads NaN as +0 ("equal").  With   *)
(* a consistent comparator the sort is stable; a NaN key beside two        *)
(* different numeric keys makes the comparator inconsistent (NaN "equals"  *)
(* both, they differ), and ECMAScript then leaves the order to the engine: *)
(* any permutation may come out.                                           *)

\* the comparator's verdict "a does not sort after b"
CompareLeq0(a, b) ==
    LET c == JsSub(a.key, b.key)
    IN  c.nan \/ c.v <= 0

ConsistentComparator(ks) ==
    LET numeric == { i \in DOMAIN ks : ~ks[i].key.nan }
    IN  \/ numeric = DOMAIN ks
        \/ \A i, j \in numeric : ks[i].key = ks[j].key

InsertStable(s, x) ==
    LET k == Cardinality({ i \in DOMAIN s : CompareLeq0(s[i], x) })
    IN  SubSeq(s, 1, k) \o << x >> \o SubSeq(s, k + 1, Len(s))

RECURSIVE StableSort(_)
StableSort(ks) ==
    IF ks = << >> THEN << >>
    ELSE InsertStable(StableSort(SubSeq(ks, 1, Len(ks) - 1)), ks[Len(ks)])

Permutations(s) ==
    LET n == Len(s)
        Bijections == { f \in [1..n -> 1..n] : \A i, j \in 1..n : f[i] = f[j] => i = j }
    IN  { [i \in 1..n |-> s[f[i]]] : f \in Bijections }

ArraySortOutcomes(ks) ==
    IF ConsistentComparator(ks) THEN { StableSort(ks) } ELSE Permutations(ks)

Items(ks) == [i \in DOMAIN ks |-> ks[i].item]

---------------------------------------------------------------------------
(* buildChartData                                                          *)

\* 111.8, in tenths
CHART_START_EQUITY == 1118

NoChart == [data |-> << >>, ath |-> NaN]

\* no order settled yet, for the sort of the trades and for the sort of the points
NoEngine == [trades |-> {}, points |-> {}]

\* buildChartData is not called a second time
NoSecondCall ==
    /\ nowMsAgain = 0
    /\ chartAgain = NoChart
    /\ engine = NoEngine

\* the trades table is not rendered
NoPages ==
    /\ tradesPage = 0
    /\ displayTrades = << >>

\* null where a slug is expected
NoSlug == Undefined

\* the range of a time scale nobody has set
InitialRange == [kind |-> "initial", from |-> NaN, to |-> NaN]

NeverApplied == [n |-> 0, at |-> 0, slug |-> NoSlug]

\* the chart as the first effect of EquityChart creates it: one empty series,
\* the refs as useRef initialises them
NoChartView ==
    /\ lastApply = 0
    /\ lastMarketSlug = NoSlug
    /\ firstFitDone = FALSE
    /\ seriesData = << >>
    /\ athData = << >>
    /\ visibleRange = InitialRange
    /\ applications = NeverApplied

NoBurst == [n |-> 0, start |-> 0, fetches |-> 0, lastAt |-> 0]

\* nothing is fetched
NoPolling ==
    /\ pageState = 0
    /\ error = FALSE
    /\ lastUpdated = 0
    /\ isAutoBurst = FALSE
    /\ effectFor = FALSE
    /\ intervals = {}
    /\ ticks = 0
    /\ inflight = {}
    /\ issued = 0
    /\ newestApplied = 0
    /\ burst = NoBurst
    /\ idle = 0
    /\ mounted = FALSE
    /\ cancelled = FALSE

\* the page shell is left out
NoShell == NoPages /\ NoChartView /\ NoPolling

\* the array trades after the call: filter (line 115) returns a new array and
\* sort (line 118) is applied to a copy, so trades is as it was
AfterBuild(trs) == trs

IsResolved_notPending(t) == t.result # "PENDING"

\* the filter's test: t.result === "WIN" || t.result === "LOSS"
IsResolved(t) == t.result = "WIN" \/ t.result = "LOSS"

Resolved(trs) == SelectSeq(trs, IsResolved)

SortedTrades_unsorted(resolved) == { resolved }

\* [...resolved].sort(by parseTimestamp(.timestamp).getTime()): what may come out
SortedTrades(resolved) ==
    { Items(s) : s \in ArraySortOutcomes(
          [i \in DOMAIN resolved |->
              [key |-> parseTimestamp(resolved[i].timestamp), item |-> resolved[i]]]) }

Point(time, value) == [time |-> time, value |-> value]

JsAdd(a, b) == IF a.nan \/ b.nan THEN NaN ELSE Num(a.v + b.v)
JsMax(a, b) == IF a.nan \/ b.nan THEN NaN ELSE IF a.v >= b.v THEN a ELSE b

FoldStep_pointBeforeAdd(acc, t) ==
    LET p == Number(t.pnl_usdc)
        running == JsAdd(acc.running, p)
        ts == TradeSec(t)
    IN  IF ~isFinite(p) THEN acc
        ELSE [running |-> running,
              ath |-> IF running.v > acc.ath.v THEN running ELSE acc.ath,
              out |-> IF ~isFinite(running) \/ ~isFinite(ts) THEN acc.out
                      ELSE Append(acc.out, Point(ts, acc.running))]

\* one turn of the loop over sorted: acc is (out, running, ath)
FoldStep(acc, t) ==
    LET p == Number(t.pnl_usdc)
        running == JsAdd(acc.running, p)
        ts == TradeSec(t)
    IN  IF ~isFinite(p) THEN acc
        ELSE [running |-> running,
              ath |-> IF running.v > acc.ath.v THEN running ELSE acc.ath,
              out |-> IF ~isFinite(running) \/ ~isFinite(ts) THEN acc.out
                      ELSE Append(acc.out, Point(ts, running))]

RECURSIVE FoldTrades(_, _)
FoldTrades(sorted, acc) ==
    IF sorted = << >> THEN acc
    ELSE FoldTrades(Tail(sorted), FoldStep(acc, Head(sorted)))

EmptyCurve_onePoint(nowSec, startEquity) ==
    << Point(Num(nowSec), startEquity) >>

\* the two points pushed when no record is resolved
EmptyCurve(nowSec, startEquity) ==
    << Point(Num(nowSec - 1), startEquity), Point(Num(nowSec), startEquity) >>

SeedPoint_atFirst(sorted, startEquity) ==
    Point(TradeSec(sorted[1]), startEquity)

\* the point pushed before the loop
SeedPoint(sorted, startEquity) ==
    Point(JsSub(TradeSec(sorted[1]), Num(1)), startEquity)

\* the point pushed after the loop, unless the last one is at nowSec
WithTrailing(f, nowSec) ==
    IF f.out[Len(f.out)].time # Num(nowSec)
    THEN [f EXCEPT !.out = Append(@, Point(Num(nowSec), f.running))]
    ELSE f

\* out, running and ath as they stand before the filter of line 143
Emitted(sorted, nowSec) ==
    LET startEquity == Num(CHART_START_EQUITY)
    IN  IF Len(sorted) = 0
        THEN [out |-> EmptyCurve(nowSec, startEquity),
              running |-> startEquity, ath |-> startEquity]
        ELSE WithTrailing(
                 FoldTrades(sorted, [out |-> << SeedPoint(sorted, startEquity) >>,
                                     running |-> startEquity, ath |-> startEquity]),
                 nowSec)

\* d != null && Number.isFinite(d.value) && d.time != null
IsValidPoint(d) == isFinite(d.value)

MapSet_keepFirst(seen, d) ==
    IF \E i \in DOMAIN seen : seen[i].time = d.time THEN seen ELSE Append(seen, d)

\* Map.prototype.set, the map kept as its entries in insertion order: a key
\* already present keeps its place and takes the new value
MapSet(seen, d) ==
    IF \E i \in DOMAIN seen : seen[i].time = d.time
    THEN [i \in DOMAIN seen |-> IF seen[i].time = d.time THEN d ELSE seen[i]]
    ELSE Append(seen, d)

RECURSIVE SeenOf(_, _)
SeenOf(valid, seen) ==
    IF valid = << >> THEN seen ELSE SeenOf(Tail(valid), MapSet(seen, Head(valid)))

\* [...seen.entries()].sort((a, b) => a[0] - b[0]).map(([, d]) => d): what may come out
SortedData(seen) ==
    { Items(s) : s \in ArraySortOutcomes(
          [i \in DOMAIN seen |-> [key |-> seen[i].time, item |-> seen[i]]]) }

RECURSIVE MaxValue(_)
MaxValue(data) ==
    IF Len(data) = 1 THEN data[1].value
    ELSE JsMax(data[1].value, MaxValue(Tail(data)))

ReturnedAth_running(e, data) == e.running

\* Math.max(ath, maxVal)
ReturnedAth(e, data) ==
    LET maxVal == IF Len(data) > 0 THEN MaxValue(data) ELSE Num(CHART_START_EQUITY)
    IN  JsMax(e.ath, maxVal)

\* every { data, ath } that buildChartData(trs) may return when Date.now() is ms
buildChartData(trs, ms) ==
    LET nowSec == ms \div 1000
    IN  UNION { LET e == Emitted(sorted, nowSec)
                    seen == SeenOf(SelectSeq(e.out, IsValidPoint), << >>)
                IN  { [data |-> data, ath |-> ReturnedAth(e, data)] :
                          data \in SortedData(seen) }
                : sorted \in SortedTrades(Resolved(trs)) }

---------------------------------------------------------------------------
(* The curve builder as a state machine: called once on a trade list.      *)

\* the fields of a TradeRecord that buildChartData reads
CurveTrade(ts, result, pnl) == [timestamp |-> ts, result |-> result, pnl_usdc |-> pnl]

CurveTimestamps == { TsNull, TsInvalid, TsIso(1000), TsIso(1500), TsUnix(2) }

\* wins with a gain or with no usable pnl, losses with a loss, and one record of
\* each result that is not settled
CurveTrades ==
    { CurveTrade(ts, "WIN", p) : ts \in CurveTimestamps, p \in { PnlNum(200), PnlAbsent } }
    \cup { CurveTrade(ts, "LOSS", PnlNum(-300)) : ts \in CurveTimestamps }
    \cup { CurveTrade(TsIso(1000), r, PnlNum(200)) : r \in { "PENDING", "TIMEOUT", "REJECTED" } }

\* Date.now() a quarter of a second into each second
ClockValues == { 1000 * s + 250 : s \in 0..MaxNowSec }

InitCurve ==
    /\ pc = "input"
    /\ trades \in SeqsUpTo(CurveTrades, MaxTrades)
    /\ nowMs \in ClockValues
    /\ chart = NoChart
    /\ localTrades = << >>
    /\ analyticsTrades = << >>
    /\ tradesMerged = << >>
    /\ rawSide = Undefined
    /\ sideOnce = << >>
    /\ sideTwice = << >>
    /\ NoSecondCall
    /\ NoShell

BuildChartData ==
    /\ pc = "input"
    /\ chart' \in buildChartData(trades, nowMs)
    /\ trades' = AfterBuild(trades)
    /\ pc' = "done"
    /\ UNCHANGED << nowMs, localTrades, analyticsTrades, tradesMerged,
                    rawSide, sideOnce, sideTwice, againVars, shellVars >>

NextCurve == BuildChartData

SpecCurve == InitCurve /\ [][NextCurve]_vars

\* the same call on longer lists of fewer records: a gain and a loss at valid
\* timestamps, a record with no usable pnl at a valid and at an absent timestamp,
\* a gain and a loss at an absent timestamp
LongCurveTrades ==
    { CurveTrade(TsUnix(2), "WIN", PnlNum(200)),
      CurveTrade(TsIso(1000), "LOSS", PnlNum(-300)),
      CurveTrade(TsIso(1500), "WIN", PnlAbsent),
      CurveTrade(TsNull, "WIN", PnlAbsent),
      CurveTrade(TsNull, "WIN", PnlNum(200)),
      CurveTrade(TsInvalid, "LOSS", PnlNum(-300)) }

InitCurveLong ==
    /\ pc = "input"
    /\ trades \in SeqsUpTo(LongCurveTrades, MaxLongTrades)
    /\ nowMs \in ClockValues
    /\ chart = NoChart
    /\ localTrades = << >>
    /\ analyticsTrades = << >>
    /\ tradesMerged = << >>
    /\ rawSide = Undefined
    /\ sideOnce = << >>
    /\ sideTwice = << >>
    /\ NoSecondCall
    /\ NoShell

SpecCurveLong == InitCurveLong /\ [][NextCurve]_vars

---------------------------------------------------------------------------
(* buildChartData called twice on one trade list, as the chart effect does  *)
(* on successive runs.  An engine's sort is a function of the array and of  *)
(* the comparator's answers: where ECMAScript leaves the order open the     *)
(* engine may settle on any order, and it settles on that order again when  *)
(* it is given the same array.  engine remembers, for the arrays whose      *)
(* comparator was inconsistent, the order the engine settled on.            *)

\* the orders sort may give for ks, given what the engine has settled on
EngineSort_forgetful(memo, ks) == ArraySortOutcomes(ks)

EngineSort(memo, ks) ==
    IF \E p \in memo : p.in = ks
    THEN { p.out : p \in { q \in memo : q.in = ks } }
    ELSE ArraySortOutcomes(ks)

\* what the engine has settled on after sorting ks into s
Settle(memo, ks, s) ==
    IF ConsistentComparator(ks) THEN memo ELSE memo \cup { [in |-> ks, out |-> s] }

\* every { data, ath } that buildChartData(trs) may return when Date.now() is ms,
\* with what the engine has settled on afterwards
buildChartDataOn(eng, trs, ms) ==
    LET nowSec == ms \div 1000
        resolved == Resolved(trs)
        ks1 == [i \in DOMAIN resolved |->
                   [key |-> parseTimestamp(resolved[i].timestamp), item |-> resolved[i]]]
    IN  UNION { LET e == Emitted(Items(s1), nowSec)
                    seen == SeenOf(SelectSeq(e.out, IsValidPoint), << >>)
                    ks2 == [i \in DOMAIN seen |-> [key |-> seen[i].time, item |-> seen[i]]]
                IN  { [chart |-> [data |-> Items(s2), ath |-> ReturnedAth(e, Items(s2))],
                       engine |-> [trades |-> Settle(eng.trades, ks1, s1),
                                   points |-> Settle(eng.points, ks2, s2)]] :
                          s2 \in EngineSort(eng.points, ks2) }
                : s1 \in EngineSort(eng.trades, ks1) }

\* Date.now() at the second call: the same instant, half a second or a second later
ClockValuesAgain(ms) == { ms, ms + 500, ms + 1000 }

InitTwice ==
    /\ pc = "input"
    /\ trades \in SeqsUpTo(LongCurveTrades, MaxTrades)
    /\ nowMs \in ClockValues
    /\ nowMsAgain \in ClockValuesAgain(nowMs)
    /\ chart = NoChart
    /\ chartAgain = NoChart
    /\ engine = NoEngine
    /\ localTrades = << >>
    /\ analyticsTrades = << >>
    /\ tradesMerged = << >>
    /\ rawSide = Undefined
    /\ sideOnce = << >>
    /\ sideTwice = << >>
    /\ NoShell

BuildChartDataOnce ==
    /\ pc = "input"
    /\ \E run \in buildChartDataOn(engine, trades, nowMs) :
           /\ chart' = run.chart
           /\ engine' = run.engine
    /\ trades' = AfterBuild(trades)
    /\ pc' = "once"
    /\ UNCHANGED << nowMs, nowMsAgain, chartAgain, localTrades, analyticsTrades,
                    tradesMerged, rawSide, sideOnce, sideTwice, shellVars >>

BuildChartDataAgain ==
    /\ pc = "once"
    /\ \E run \in buildChartDataOn(engine, trades, nowMsAgain) :
           /\ chartAgain' = run.chart
           /\ engine' = run.engine
    /\ trades' = AfterBuild(trades)
    /\ pc' = "twice"
    /\ UNCHANGED << nowMs, nowMsAgain, chart, localTrades, analyticsTrades,
                    tradesMerged, rawSide, sideOnce, sideTwice, shellVars >>

NextTwice == BuildChartDataOnce \/ BuildChartDataAgain

SpecTwice == InitTwice /\ [][NextTwice]_vars

---------------------------------------------------------------------------
(* What the claims about the curve builder speak of, stated on the input   *)
(* records themselves.                                                     *)

Done == pc = "done"
NowSec == nowMs \div 1000
StartEquity == Num(CHART_START_EQUITY)

\* a WIN or LOSS record
Settled(t) == t.result \in { "WIN", "LOSS" }
\* a PENDING, TIMEOUT or REJECTED record
Unsettled(t) == t.result \in { "PENDING", "TIMEOUT", "REJECTED" }
WithoutUnsettled(trs) == SelectSeq(trs, Settled)

SettledIn(trs) == { i \in DOMAIN trs : Settled(trs[i]) }

\* the record carries a timestamp: a number, or a string
HasTimestamp(t) == t.timestamp.kind # "null"
\* the timestamp is a number or a string that is a date
HasValidTimestamp(t) == t.timestamp.kind \in { "iso", "unix" }
HasNumericPnl(t) == t.pnl_usdc.kind = "number"

\* the second a record's timestamp falls in (an unparseable string reads as the epoch)
SecondOf(t) ==
    CASE t.timestamp.kind = "unix" -> t.timestamp.v
      [] t.timestamp.kind = "iso" -> t.timestamp.v \div 1000
      [] OTHER -> 0

\* the sum of the numeric pnl of the WIN/LOSS records of trs not later than second s
RECURSIVE PnlUpTo(_, _)
PnlUpTo(trs, s) ==
    IF trs = << >> THEN 0
    ELSE (IF Settled(Head(trs)) /\ HasNumericPnl(Head(trs)) /\ SecondOf(Head(trs)) <= s
          THEN Head(trs).pnl_usdc.v ELSE 0) + PnlUpTo(Tail(trs), s)

\* the sum of the numeric pnl of all WIN/LOSS records of trs
RECURSIVE PnlTotal(_)
PnlTotal(trs) ==
    IF trs = << >> THEN 0
    ELSE (IF Settled(Head(trs)) /\ HasNumericPnl(Head(trs))
          THEN Head(trs).pnl_usdc.v ELSE 0) + PnlTotal(Tail(trs))

EarliestSecond(trs) ==
    CHOOSE s \in { SecondOf(trs[i]) : i \in SettledIn(trs) } :
        \A i \in SettledIn(trs) : s <= SecondOf(trs[i])

---------------------------------------------------------------------------
(* C1: for every trade list and clock value the returned points are        *)
(* strictly ascending in time: each adjacent pair satisfies time[i] <=     *)
(* time[i+1] (as JavaScript compares) and no two points share a second,    *)
(* also when records carry absent or unparseable timestamps.               *)
C1_StrictlyAscending ==
    Done =>
        /\ \A i \in 1..(Len(chart.data) - 1) :
               JsLeq(chart.data[i].time, chart.data[i + 1].time)
        /\ \A i, j \in DOMAIN chart.data :
               i # j => chart.data[i].time # chart.data[j].time

(* C2: the returned all-time-high is at least the value of every returned  *)
(* point.                                                                  *)
C2_AthCoversPoints ==
    Done =>
        \A i \in DOMAIN chart.data :
            /\ isFinite(chart.ath) /\ isFinite(chart.data[i].value)
            /\ chart.ath.v >= chart.data[i].value.v

\* two settled trades, the curve ending below its high (100 -> 120 -> 90)
C2_Witness ==
    /\ Done
    /\ Cardinality(SettledIn(trades)) = 2
    /\ Len(chart.data) >= 3
    /\ chart.ath.v > chart.data[Len(chart.data)].value.v
    /\ chart.ath.v > CHART_START_EQUITY

(* C3: PENDING, TIMEOUT and REJECTED records change nothing: what the      *)
(* builder returns for a trade list is what it returns for the list with   *)
(* those records removed (same points, same all-time-high).                *)
C3_UnsettledIgnored ==
    (Done /\ \E i \in DOMAIN trades : Unsettled(trades[i])) =>
        /\ chart \in buildChartData(WithoutUnsettled(trades), nowMs)
        /\ buildChartData(trades, nowMs) = buildChartData(WithoutUnsettled(trades), nowMs)

\* a list holding an unsettled record beside a settled one
C3_Witness ==
    /\ Done
    /\ \E i \in DOMAIN trades : Unsettled(trades[i])
    /\ \E i \in DOMAIN trades : Settled(trades[i]) /\ HasNumericPnl(trades[i])

\* every WIN/LOSS record has a valid timestamp not later than now and a numeric pnl
C4_Scope ==
    \A i \in SettledIn(trades) :
        /\ HasValidTimestamp(trades[i])
        /\ HasNumericPnl(trades[i])
        /\ SecondOf(trades[i]) <= NowSec

C8_Scope ==
    /\ SettledIn(trades) # {}
    /\ \A i \in SettledIn(trades) : HasTimestamp(trades[i])

C9_EmptyCurve ==
    (Done /\ SettledIn(trades) = {}) =>
        /\ Len(chart.data) = 2
        /\ chart.data[1].value = StartEquity
        /\ chart.data[2].value = StartEquity
        /\ isFinite(chart.data[1].time) /\ isFinite(chart.data[2].time)
        /\ chart.data[2].time.v - chart.data[1].time.v = 1
        /\ chart.ath = StartEquity

\* a list of unsettled records only
C9_Witness ==
    /\ Done
    /\ Len(trades) >= 1
    /\ \A i \in DOMAIN trades : Unsettled(trades[i])

(* C10: the curve reaches now with the final total: the returned point     *)
(* with the greatest timestamp is not earlier than now (to the second) and *)
(* its value is the start equity plus every numeric pnl of the WIN/LOSS    *)
(* records.                                                                *)
C10_ReachesNowWithTotal ==
    Done =>
        \E i \in DOMAIN chart.data :
            /\ isFinite(chart.data[i].time)
            /\ \A j \in DOMAIN chart.data :
                   isFinite(chart.data[j].time) => chart.data[j].time.v <= chart.data[i].time.v
            /\ chart.data[i].time.v >= NowSec
            /\ chart.data[i].value = Num(CHART_START_EQUITY + PnlTotal(trades))

\* the points of out that pass the filter of line 143, in emission order
ValidOut(sorted) == SelectSeq(Emitted(sorted, NowSec).out, IsValidPoint)

\* the emission from the order sorted may have produced the returned data
Produces(sorted) == chart.data \in SortedData(SeenOf(ValidOut(sorted), << >>))

\* the value of the last point of out emitted at time t
LastValueAt(out, t) ==
    out[CHOOSE i \in DOMAIN out :
            /\ out[i].time = t
            /\ \A j \in DOMAIN out : out[j].time = t => j <= i].value

(* C11: whatever points the builder emitted (seed, then the trades in the   *)
(* order of the fold, then the trailing point), the returned data holds     *)
(* exactly one point for each second at which a point was emitted, its      *)
(* value is that of the point emitted last at that second, and it holds no  *)
(* other point.                                                             *)
C11_LastComputedWins ==
    Done =>
        \A sorted \in SortedTrades(Resolved(trades)) :
            Produces(sorted) =>
                LET out == ValidOut(sorted)
                IN  /\ \A i \in DOMAIN out :
                           LET at == { j \in DOMAIN chart.data :
                                           chart.data[j].time = out[i].time }
                           IN  /\ Cardinality(at) = 1
                               /\ \A j \in at :
                                      chart.data[j].value = LastValueAt(out, out[i].time)
                    /\ \A j \in DOMAIN chart.data :
                           \E i \in DOMAIN out : out[i].time = chart.data[j].time

\* two points of different value were emitted at one second
C11_Witness ==
    /\ Done
    /\ \E sorted \in SortedTrades(Resolved(trades)) :
           /\ Produces(sorted)
           /\ \E i, j \in DOMAIN ValidOut(sorted) :
                  /\ i < j
                  /\ ValidOut(sorted)[i].time = ValidOut(sorted)[j].time
                  /\ ValidOut(sorted)[i].value # ValidOut(sorted)[j].value

C12_Scope ==
    /\ \A i \in SettledIn(trades) :
           HasTimestamp(trades[i]) /\ SecondOf(trades[i]) <= NowSec
    /\ \A i, j \in SettledIn(trades) :
           i # j => SecondOf(trades[i]) # SecondOf(trades[j])

Without(trs, i) == SubSeq(trs, 1, i - 1) \o SubSeq(trs, i + 1, Len(trs))

\* the times at which the builder may put the seed for the list trs: the first
\* point of the two-point curve when no record is WIN/LOSS
SeedTimes(trs) ==
    IF Resolved(trs) = << >> THEN { Num(NowSec - 1) }
    ELSE { SeedPoint(sorted, StartEquity).time : sorted \in SortedTrades(Resolved(trs)) }

\* the points of data whose time is not in T
ApartFrom(data, T) ==
    LET Kept(d) == d.time \notin T
    IN  SelectSeq(data, Kept)

(* C13: a WIN/LOSS record whose pnl is not a finite number leaves no trace  *)
(* but the seed: what the builder returns is, for the list without that     *)
(* record, a possible result with the same all-time-high and the same       *)
(* points at every second other than the seconds of the two seed points.    *)
C13_SkippedRecordLeavesNoTrace ==
    Done =>
        \A i \in SettledIn(trades) :
            ~HasNumericPnl(trades[i]) =>
                LET rest == Without(trades, i)
                    T == SeedTimes(trades) \cup SeedTimes(rest)
                IN  \E q \in buildChartData(rest, nowMs) :
                        /\ q.ath = chart.ath
                        /\ ApartFrom(q.data, T) = ApartFrom(chart.data, T)

(* C14: in the fold, every WIN/LOSS record whose timestamp cannot be parsed *)
(* (absent, or a string that is no date) comes before every WIN/LOSS record *)
(* with a valid timestamp, in every order of the fold that may have         *)
(* produced the returned data.                                              *)
C14_UnparseableFirst ==
    Done =>
        \A sorted \in SortedTrades(Resolved(trades)) :
            Produces(sorted) =>
                \A i, j \in DOMAIN sorted :
                    (~HasValidTimestamp(sorted[i]) /\ HasValidTimestamp(sorted[j])) => i < j

\* both calls have returned
CalledTwice == pc = "twice"

(* C18: the builder is a function of its arguments alone: two calls with    *)
(* the same trade list, the only argument it takes, return the same points  *)
(* and the same all-time-high whatever the wall-clock time of each call.    *)
C18_FunctionOfArgumentsAlone ==
    CalledTwice => chartAgain = chart

---------------------------------------------------------------------------
(* normalizeSide as a state machine: applied once, then to its own result. *)

SideAlphabet == { "u", "U", "p", "P", "d", "D", "o", "O", "w", "W", "n", "N" }

SideInputs ==
    { Undefined, NumberOne } \cup { Str(s) : s \in SeqsUpTo(SideAlphabet, MaxSideLen) }

InitSide ==
    /\ pc = "input"
    /\ rawSide \in SideInputs
    /\ sideOnce = << >>
    /\ sideTwice = << >>
    /\ trades = << >>
    /\ nowMs = 0
    /\ chart = NoChart
    /\ localTrades = << >>
    /\ analyticsTrades = << >>
    /\ tradesMerged = << >>
    /\ NoSecondCall
    /\ NoShell

NormalizeOnce ==
    /\ pc = "input"
    /\ IF normalizeSideThrows(rawSide)
       THEN pc' = "thrown" /\ UNCHANGED sideOnce
       ELSE sideOnce' = normalizeSide(rawSide) /\ pc' = "once"
    /\ UNCHANGED << rawSide, sideTwice, trades, nowMs, chart, localTrades,
                    analyticsTrades, tradesMerged, againVars, shellVars >>

NormalizeTwice ==
    /\ pc = "once"
    /\ sideTwice' = normalizeSide(Str(sideOnce))
    /\ pc' = "twice"
    /\ UNCHANGED << rawSide, sideOnce, trades, nowMs, chart, localTrades,
                    analyticsTrades, tradesMerged, againVars, shellVars >>

NextSide == NormalizeOnce \/ NormalizeTwice

SpecSide == InitSide /\ [][NextSide]_vars

\* lower-case letter, capital
CasePairs == { << "u", "U" >>, << "p", "P" >>, << "d", "D" >>,
               << "o", "O" >>, << "w", "W" >>, << "n", "N" >> }
Capitals == { pr[2] : pr \in CasePairs }

\* S is s with every letter capital
IsUpperFormOf(s, S) ==
    /\ Len(S) = Len(s)
    /\ \A i \in DOMAIN s :
           /\ S[i] \in Capitals
           /\ s[i] = S[i] \/ << s[i], S[i] >> \in CasePairs

(* C7: normalizeSide maps every case variant of "up" to "YES", every case  *)
(* variant of "down" to "NO", any other non-empty string to its upper-case *)
(* form and an empty or absent value to the empty string; applied to its   *)
(* own result it returns that result.                                      *)
C7_NormalizeSide ==
    /\ pc \in { "once", "twice" } =>
           IF ~rawSide.def \/ rawSide.str = << >>
               THEN sideOnce = << >>
           ELSE IF IsUpperFormOf(rawSide.str, << "U", "P" >>)
               THEN sideOnce = << "Y", "E", "S" >>
           ELSE IF IsUpperFormOf(rawSide.str, << "D", "O", "W", "N" >>)
               THEN sideOnce = << "N", "O" >>
           ELSE IsUpperFormOf(rawSide.str, sideOnce)
    /\ pc = "twice" => sideTwice = sideOnce

\* a mixed-case "down", normalised twice
C7_Witness ==
    /\ pc = "twice"
    /\ rawSide = Str(<< "d", "O", "w", "N" >>)
    /\ sideTwice = << "N", "O" >>

---------------------------------------------------------------------------
(* tradesMerged: the merge of state.trades and state.analyticsTrades.      *)
(* The Map bySlugSide is kept as the sequence of its entries [key, value]  *)
(* in insertion order.                                                     *)

\* `${t.slug}\t${sideNorm}`
KeyOf(t) == TemplateString(t.slug) \o << TAB >> \o normalizeSide(t.side)

\* { ...t, side: sideNorm }
WithNormalizedSide(t) == [t EXCEPT !.side = Str(normalizeSide(t.side))]

\* bySlugSide.set(key, value)
BySlugSideSet(m, key, value) ==
    IF \E i \in DOMAIN m : m[i].key = key
    THEN [i \in DOMAIN m |-> IF m[i].key = key THEN [key |-> key, value |-> value] ELSE m[i]]
    ELSE Append(m, [key |-> key, value |-> value])

RECURSIVE SetAll(_, _)
SetAll(m, trs) ==
    IF trs = << >> THEN m
    ELSE SetAll(BySlugSideSet(m, KeyOf(Head(trs)), WithNormalizedSide(Head(trs))),
                Tail(trs))

\* Array.from(bySlugSide.values()) after the two loops
MergeTrades(local, analytics) ==
    LET m == SetAll(SetAll(<< >>, local), analytics)
    IN  [i \in DOMAIN m |-> m[i].value]

MergeSlugs == { Undefined, Str(<< >>), Str(<< "u", "n", "d", "e", "f", "i", "n", "e", "d" >>) }
MergeSides == { Undefined, Str(<< "U", "P" >>), Str(<< "Y", "E", "S" >>) }
MergePnls == { PnlNum(50), PnlNum(90) }

\* the fields of a TradeRecord that tell the records of the merge apart
MergeTrade(slug, side, pnl) == [slug |-> slug, side |-> side, pnl_usdc |-> pnl]

MergeRecords ==
    { MergeTrade(slug, side, pnl) :
          slug \in MergeSlugs, side \in MergeSides, pnl \in MergePnls }

InitMerge ==
    /\ pc = "input"
    /\ localTrades \in SeqsUpTo(MergeRecords, MaxMergeTrades)
    /\ analyticsTrades \in SeqsUpTo(MergeRecords, MaxMergeTrades - Len(localTrades))
    /\ tradesMerged = << >>
    /\ trades = << >>
    /\ nowMs = 0
    /\ chart = NoChart
    /\ rawSide = Undefined
    /\ sideOnce = << >>
    /\ sideTwice = << >>
    /\ NoSecondCall
    /\ NoShell

\* a merge that assigned t.side = sideNorm on the record itself
AfterMerge_sideWritten(trs) == [i \in DOMAIN trs |-> WithNormalizedSide(trs[i])]

\* an input list after the merge: each loop reads t.slug and t.side and stores a
\* copy { ...t, side: sideNorm }, so the list and its records are as they were
AfterMerge(trs) == trs

\* normalizeSide throws on some record of either list
MergeThrows(local, analytics) ==
    LET all == local \o analytics
    IN  \E i \in DOMAIN all : normalizeSideThrows(all[i].side)

Merge ==
    /\ pc = "input"
    /\ IF MergeThrows(localTrades, analyticsTrades)
       THEN pc' = "thrown" /\ UNCHANGED tradesMerged
       ELSE tradesMerged' = MergeTrades(localTrades, analyticsTrades) /\ pc' = "done"
    /\ localTrades' = AfterMerge(localTrades)
    /\ analyticsTrades' = AfterMerge(analyticsTrades)
    /\ UNCHANGED << trades, nowMs, chart, rawSide, sideOnce, sideTwice, againVars, shellVars >>

NextMerge == Merge

SpecMerge == InitMerge /\ [][NextMerge]_vars

\* the merge on records with missing and wrongly typed fields: slug and side
\* absent, a number for the side, no usable pnl
TotalRecords ==
    { MergeTrade(slug, side, pnl) :
          slug \in { Undefined, Str(<< "m" >>) },
          side \in { Undefined, Str(<< "U", "P" >>), NumberOne },
          pnl \in { PnlNum(50), PnlAbsent } }

InitTotal ==
    /\ pc = "input"
    /\ localTrades \in SeqsUpTo(TotalRecords, MaxMergeTrades)
    /\ analyticsTrades \in SeqsUpTo(TotalRecords, MaxMergeTrades - Len(localTrades))
    /\ tradesMerged = << >>
    /\ trades = << >>
    /\ nowMs = 0
    /\ chart = NoChart
    /\ rawSide = Undefined
    /\ sideOnce = << >>
    /\ sideTwice = << >>
    /\ NoSecondCall
    /\ NoShell

SpecTotal == InitTotal /\ [][NextMerge]_vars

(* C15: neither the merge nor the curve builder ever fails.  Stated for the *)
(* merge: for every pair of lists, also with records whose slug or side is  *)
(* absent, whose side is no string or whose pnl is no number, the merge     *)
(* (and normalizeSide inside it) returns and does not throw.                *)
C15_MergeNeverThrows ==
    pc # "thrown"

\* the (slug, normalized side) pair of a record; an absent slug is no string
PairOf(t) == << t.slug, normalizeSide(t.side) >>

(* C5: whenever a local and an analytics record share a (slug, normalized  *)
(* side), the merged list holds a record of that pair, and every merged     *)
(* record of that pair is the content of an analytics record of the pair    *)
(* (side normalised), whatever the order of the records in either list,     *)
(* also when the raw sides differ (UP, YES).                                *)
C5_AnalyticsWins ==
    Done =>
        \A l \in DOMAIN localTrades : \A a \in DOMAIN analyticsTrades :
            PairOf(localTrades[l]) = PairOf(analyticsTrades[a]) =>
                LET P == PairOf(analyticsTrades[a])
                    at == { j \in DOMAIN tradesMerged : PairOf(tradesMerged[j]) = P }
                IN  /\ at # {}
                    /\ \A j \in at :
                           \E b \in DOMAIN analyticsTrades :
                               /\ PairOf(analyticsTrades[b]) = P
                               /\ tradesMerged[j] = WithNormalizedSide(analyticsTrades[b])

\* the (slug, normalized side) pairs of the two input lists
InputPairs ==
    { PairOf(localTrades[i]) : i \in DOMAIN localTrades }
        \cup { PairOf(analyticsTrades[i]) : i \in DOMAIN analyticsTrades }

(* C6: the merged list holds exactly one record for each distinct (slug,   *)
(* normalized side) of the two input lists: no two merged records share a  *)
(* pair, no pair of the inputs is missing, and records of different pairs  *)
(* are never merged into one.                                              *)
C6_OneRecordPerPair ==
    Done =>
        /\ \A i, j \in DOMAIN tradesMerged :
               i # j => PairOf(tradesMerged[i]) # PairOf(tradesMerged[j])
        /\ { PairOf(tradesMerged[j]) : j \in DOMAIN tradesMerged } = InputPairs
        /\ Len(tradesMerged) = Cardinality(InputPairs)

\* the records of the two input lists
InputRecords ==
    { localTrades[i] : i \in DOMAIN localTrades }
        \cup { analyticsTrades[i] : i \in DOMAIN analyticsTrades }

(* C16: a record with an absent slug is keyed as the same record with the   *)
(* empty string for a slug, is keyed unlike every record with a non-empty   *)
(* slug, and the merged list holds a record of its (slug, normalized side). *)
C16_AbsentSlugKeyedAsEmpty ==
    Done =>
        \A a \in InputRecords :
            ~a.slug.def =>
                /\ KeyOf(a) = KeyOf([a EXCEPT !.slug = Str(<< >>)])
                /\ \A b \in InputRecords :
                       (b.slug.def /\ b.slug.str # << >>) => KeyOf(a) # KeyOf(b)
                /\ \E j \in DOMAIN tradesMerged : PairOf(tradesMerged[j]) = PairOf(a)

\* the writes to bySlugSide in the order of the two loops
Writes == localTrades \o analyticsTrades

\* the place in Writes of the last write under key k
LastWrite(k) ==
    CHOOSE i \in DOMAIN Writes :
        /\ KeyOf(Writes[i]) = k
        /\ \A j \in DOMAIN Writes : KeyOf(Writes[j]) = k => j <= i

(* C17: the merged list enumerates the keys in the order of their final     *)
(* writes: of two merged records, the one whose key was last written        *)
(* earlier comes first, so that a key overwritten by an analytics record    *)
(* stands at the place of the overwriting write.                            *)
C17_OrderOfFinalWrites ==
    Done =>
        \A i, j \in DOMAIN tradesMerged :
            i < j => LastWrite(KeyOf(tradesMerged[i])) < LastWrite(KeyOf(tradesMerged[j]))


(***************************************************************************)
(* The merge and the curve builder over the inputs they are given          *)
(***************************************************************************)

\* either the effect is about to build the curve of a trade list, or the page
\* is about to merge a local and an analytics list
InitFrame == InitCurve \/ InitMerge

NextFrame == BuildChartData \/ Merge

SpecFrame == InitFrame /\ [][NextFrame]_vars

---------------------------------------------------------------------------
(* The trades table of DashboardPage: displayTrades, the stored page       *)
(* number tradesPage, and the Prev and Next buttons.  Every poll that      *)
(* succeeds renders the page again on the trades of the new payload.       *)

\* most trades of a payload shown in the table
MaxPageTrades == 21

TRADES_PER_PAGE == 10

Max2(a, b) == IF a >= b THEN a ELSE b
Min2(a, b) == IF a <= b THEN a ELSE b

\* Math.ceil(n / d) for n >= 0, d > 0
CeilDiv(n, d) == (n + d - 1) \div d

\* 0 - a
JsNeg(a) == JsSub(Num(0), a)

\* [...trades].sort((a, b) => parseTimestamp(b.timestamp).getTime()
\*                            - parseTimestamp(a.timestamp).getTime()): what may come out
DisplayTrades(trs) ==
    { Items(s) : s \in ArraySortOutcomes(
          [i \in DOMAIN trs |->
              [key |-> JsNeg(parseTimestamp(trs[i].timestamp)), item |-> trs[i]]]) }

totalPages == Max2(1, CeilDiv(Len(displayTrades), TRADES_PER_PAGE))

safePage == Min2(tradesPage, totalPages - 1)

\* displayTrades.slice(from, to)
Slice(a, from, to) == SubSeq(a, from + 1, Min2(to, Len(a)))

\* the rows of page p
PageRows(p) == Slice(displayTrades, p * TRADES_PER_PAGE, (p + 1) * TRADES_PER_PAGE)

paginatedTrades == PageRows(safePage)

\* the Prev and Next buttons are rendered
PagerShown == Len(displayTrades) > TRADES_PER_PAGE

\* n trades, the i-th settled in second i: the payload lists them oldest first
DatedTrades(n) == [i \in 1..n |-> CurveTrade(TsUnix(i), "WIN", PnlNum(200))]

\* the trade lists of the payloads: up to MaxPageTrades dated trades, and short
\* lists of which some records have no timestamp or one that does not parse
PageTradeLists ==
    { DatedTrades(n) : n \in 0..MaxPageTrades }
    \cup SeqsUpTo(LongCurveTrades, MaxLongTrades)

\* the first payload has no trades
InitPages ==
    /\ pc = "shown"
    /\ trades = << >>
    /\ displayTrades = << >>
    /\ tradesPage = 0
    /\ nowMs = 0
    /\ chart = NoChart
    /\ localTrades = << >>
    /\ analyticsTrades = << >>
    /\ tradesMerged = << >>
    /\ rawSide = Undefined
    /\ sideOnce = << >>
    /\ sideTwice = << >>
    /\ NoSecondCall
    /\ NoChartView
    /\ NoPolling

\* a poll brings a payload with other trades; the page renders again
PollTrades ==
    /\ pc = "shown"
    /\ trades' \in PageTradeLists
    /\ displayTrades' \in DisplayTrades(trades')
    /\ UNCHANGED << pc, tradesPage, nowMs, chart, localTrades, analyticsTrades,
                    tradesMerged, rawSide, sideOnce, sideTwice, againVars, chartVars, pollVars >>

\* setTradesPage((p) => Math.max(0, p - 1))
PrevPage(p) == Max2(0, p - 1)

\* setTradesPage((p) => Math.min(totalPages - 1, p + 1))
NextPage(p) == Min2(totalPages - 1, p + 1)

\* a click on Prev, which is disabled on the first page
ClickPrev ==
    /\ pc = "shown"
    /\ PagerShown
    /\ safePage # 0
    /\ tradesPage' = PrevPage(tradesPage)
    /\ UNCHANGED << pc, trades, displayTrades, nowMs, chart, localTrades,
                    analyticsTrades, tradesMerged, rawSide, sideOnce, sideTwice,
                    againVars, chartVars, pollVars >>

\* a click on Next, which is disabled on the last page
ClickNext ==
    /\ pc = "shown"
    /\ PagerShown
    /\ safePage < totalPages - 1
    /\ tradesPage' = NextPage(tradesPage)
    /\ UNCHANGED << pc, trades, displayTrades, nowMs, chart, localTrades,
                    analyticsTrades, tradesMerged, rawSide, sideOnce, sideTwice,
                    againVars, chartVars, pollVars >>

NextPages == PollTrades \/ ClickPrev \/ ClickNext

SpecPages == InitPages /\ [][NextPages]_vars

(* C29: whenever the displayed page index is above 0 a click on Prev shows  *)
(* the page before it, and whenever it is below the last page a click on   *)
(* Next shows the page after it, whatever clicks and polls came before.    *)
C29_OneClickOnePage ==
    [][/\ ClickPrev => safePage' = safePage - 1
       /\ ClickNext => safePage' = safePage + 1]_vars

\* the pages 0..totalPages-1 one after the other
RECURSIVE PagesFrom(_)
PagesFrom(p) == IF p >= totalPages THEN << >> ELSE PageRows(p) \o PagesFrom(p + 1)

\* how often record t stands in list a
CountIn(a, t) == Cardinality({ i \in DOMAIN a : a[i] = t })

(* C30: the displayed page index lies in 0..totalPages-1 with totalPages   *)
(* at least 1, no page shows more than 10 trades, and the pages in order   *)
(* hold every trade exactly once, newest first: of two trades that both    *)
(* carry a time, the later one is never shown after the earlier one.       *)
C30_PagesPartitionNewestFirst ==
    /\ totalPages >= 1
    /\ 0 <= safePage /\ safePage <= totalPages - 1
    /\ \A p \in 0..(totalPages - 1) : Len(PageRows(p)) <= TRADES_PER_PAGE
    /\ Len(PagesFrom(0)) = Len(trades)
    /\ \A i \in DOMAIN trades : CountIn(PagesFrom(0), trades[i]) = CountIn(trades, trades[i])
    /\ \A i, j \in DOMAIN PagesFrom(0) :
           LET ti == parseTimestamp(PagesFrom(0)[i].timestamp)
               tj == parseTimestamp(PagesFrom(0)[j].timestamp)
           IN  (i < j /\ isFinite(ti) /\ isFinite(tj)) => ti.v >= tj.v


---------------------------------------------------------------------------
(* The second effect of EquityChart: it runs after every render of the     *)
(* page (trades is a new array each time), decides whether the chart data  *)
(* is due, and if so builds the curve and hands it to the series.          *)

\* the clock of the chart runs over so many half intervals
MaxChartSteps == 3
\* the effect applies data at most so often
MaxApplications == 3

\* 5 * 60 * 1000
CHART_UPDATE_INTERVAL_MS == 300000

\* Date.now() at the first render: the last millisecond of second 1
ChartClockStart == 1999

\* between two renders half an update interval passes
ChartClockStep == CHART_UPDATE_INTERVAL_MS \div 2

\* the trades prop of a render: no trades; a record whose curve is the seed
\* alone when it is built in second 1; a loss with a valid timestamp; that loss
\* and a gain without timestamp
ChartTradeLists ==
    { << >>,
      << CurveTrade(TsUnix(2), "WIN", PnlAbsent) >>,
      << CurveTrade(TsIso(1000), "LOSS", PnlNum(-300)) >>,
      << CurveTrade(TsIso(1000), "LOSS", PnlNum(-300)), CurveTrade(TsNull, "WIN", PnlNum(200)) >> }

\* state.currentMarket?.slug: null, or one of two slugs
MarketSlugs == { NoSlug, Str(<< "a" >>), Str(<< "b" >>) }

\* the three later calls of Date.now() in one run of the effect (in
\* buildChartData, and twice for the fallback): each gives the millisecond of
\* the call before it or the next one
ClockReads(now) ==
    { r \in [1..3 -> { now, now + 1 }] : r[1] <= r[2] /\ r[2] <= r[3] }

ShouldUpdate_sinceEpoch(now, slug) ==
    \/ lastApply = 0
    \/ now >= CHART_UPDATE_INTERVAL_MS
    \/ lastMarketSlug # slug

\* shouldUpdate
ShouldUpdate(now, slug) ==
    \/ lastApply = 0
    \/ now - lastApply >= CHART_UPDATE_INTERVAL_MS
    \/ lastMarketSlug # slug

\* data.length < 2
NeedsFallback(data) == Len(data) < 2

\* the fallback of lines 249-252, Date.now() giving ms0 and then ms1
Fallback(ms0, ms1) ==
    << Point(Num(ms0 \div 1000), Num(CHART_START_EQUITY)),
       Point(Num(ms1 \div 1000 + 1), Num(CHART_START_EQUITY)) >>

\* athData: the ath from the first point's time to the last one's
AthLine(data, ath) ==
    << Point(data[1].time, ath), Point(data[Len(data)].time, ath) >>

\* chart.timeScale().fitContent(): the range from the first to the last point
FitContent(data) == [kind |-> "fit", from |-> data[1].time, to |-> data[Len(data)].time]

FirstFitDoneAfter_notSet(done) == done

\* firstFitDoneRef.current after the effect has applied data
FirstFitDoneAfter(done) == TRUE

\* one more application, at instant now under slug
Applied(now, slug) ==
    [n |-> applications.n + 1, at |-> now, slug |-> slug]

InitChart ==
    /\ pc = "chart"
    /\ nowMs = ChartClockStart
    /\ trades = << >>
    /\ chart = NoChart
    /\ localTrades = << >>
    /\ analyticsTrades = << >>
    /\ tradesMerged = << >>
    /\ rawSide = Undefined
    /\ sideOnce = << >>
    /\ sideTwice = << >>
    /\ NoSecondCall
    /\ NoPages
    /\ NoChartView
    /\ NoPolling

\* a render followed by an effect that finds the data due: lines 236-282
ApplyChartData ==
    /\ pc = "chart"
    /\ applications.n < MaxApplications
    /\ \E trs \in ChartTradeLists, slug \in MarketSlugs, read \in ClockReads(nowMs) :
           /\ ShouldUpdate(nowMs, slug)
           /\ trades' = trs
           /\ lastApply' = nowMs
           /\ lastMarketSlug' = slug
           /\ applications' = Applied(nowMs, slug)
           /\ \E built \in buildChartData(trs, read[1]) :
                  /\ chart' = built
                  /\ IF NeedsFallback(built.data)
                     THEN /\ seriesData' = Fallback(read[2], read[3])
                          /\ athData' = IF athData = << >> THEN << >>
                                        ELSE Fallback(read[2], read[3])
                     ELSE /\ seriesData' = built.data
                          /\ athData' = AthLine(built.data, built.ath)
           /\ visibleRange' = IF firstFitDone THEN visibleRange ELSE FitContent(seriesData')
           /\ firstFitDone' = FirstFitDoneAfter(firstFitDone)
    /\ UNCHANGED << pc, nowMs, localTrades, analyticsTrades, tradesMerged,
                    rawSide, sideOnce, sideTwice, againVars, pagesVars, pollVars >>

\* a render followed by an effect that returns at line 243
SkipChartData ==
    /\ pc = "chart"
    /\ \E trs \in ChartTradeLists, slug \in MarketSlugs :
           /\ ~ShouldUpdate(nowMs, slug)
           /\ trades' = trs
    /\ UNCHANGED << pc, nowMs, chart, lastApply, lastMarketSlug, firstFitDone,
                    seriesData, athData, visibleRange, applications,
                    localTrades, analyticsTrades, tradesMerged,
                    rawSide, sideOnce, sideTwice, againVars, pagesVars, pollVars >>

\* half an update interval passes
ChartTimePasses ==
    /\ pc = "chart"
    /\ nowMs + ChartClockStep <= ChartClockStart + MaxChartSteps * ChartClockStep
    /\ nowMs' = nowMs + ChartClockStep
    /\ UNCHANGED << pc, trades, chart, localTrades, analyticsTrades, tradesMerged,
                    rawSide, sideOnce, sideTwice, againVars, shellVars >>

\* the user drags or zooms the chart
UserPan ==
    /\ pc = "chart"
    /\ visibleRange' = [kind |-> "user", from |-> NaN, to |-> NaN]
    /\ UNCHANGED << pc, nowMs, trades, chart, lastApply, lastMarketSlug,
                    firstFitDone, seriesData, athData, applications,
                    localTrades, analyticsTrades, tradesMerged,
                    rawSide, sideOnce, sideTwice, againVars, pagesVars, pollVars >>

\* the Reset chart button: resetView, fitContent on what the chart holds
ResetView ==
    /\ pc = "chart"
    /\ visibleRange' = IF seriesData = << >> THEN visibleRange ELSE FitContent(seriesData)
    /\ UNCHANGED << pc, nowMs, trades, chart, lastApply, lastMarketSlug,
                    firstFitDone, seriesData, athData, applications,
                    localTrades, analyticsTrades, tradesMerged,
                    rawSide, sideOnce, sideTwice, againVars, pagesVars, pollVars >>

NextChart == ApplyChartData \/ SkipChartData \/ ChartTimePasses \/ UserPan \/ ResetView

SpecChart == InitChart /\ [][NextChart]_vars


\* this step is an application of data by the effect
ApplicationStep == applications'.n = applications.n + 1

\* the effect has applied data before, less than the update interval ago
AppliedLately ==
    /\ applications.n > 0
    /\ nowMs - applications.at < CHART_UPDATE_INTERVAL_MS

(* C24: the chart data is applied only on the first run, when at least 5    *)
(* minutes have passed since the previous application, or when the market  *)
(* slug differs from the slug of the previous application; a render that   *)
(* meets none of the three leaves the series, the last-apply time and the  *)
(* remembered slug as they were.                                           *)
C24_AppliedOnlyWhenDue ==
    [][/\ ApplicationStep =>
              \/ applications.n = 0
              \/ nowMs - applications.at >= CHART_UPDATE_INTERVAL_MS
              \/ applications'.slug # applications.slug
       /\ (AppliedLately /\ lastMarketSlug' = applications.slug) =>
              UNCHANGED << seriesData, athData, lastApply, lastMarketSlug, applications >>
      ]_vars

\* data was applied twice under one slug, the second time a full interval
\* after the first or later, and time has passed since
C24_Witness ==
    /\ applications.n = 2
    /\ applications.slug = NoSlug
    /\ applications.at >= ChartClockStart + CHART_UPDATE_INTERVAL_MS
    /\ nowMs > applications.at
    /\ lastApply = applications.at
    /\ seriesData # << >>

(* C26: the chart fits its content by itself once, on the first data        *)
(* application; no later application and no other render changes the range *)
(* on screen, which moves only when the user pans or zooms and when the    *)
(* user resets the chart.                                                  *)
C26_FitOnceOnly ==
    [][/\ (ApplicationStep /\ applications.n = 0) => visibleRange' = FitContent(seriesData')
       /\ (ApplicationStep /\ applications.n > 0) => visibleRange' = visibleRange
       /\ (~ApplicationStep /\ visibleRange' # visibleRange) =>
              /\ UNCHANGED << seriesData, trades >>
              /\ \/ visibleRange'.kind = "user"
                 \/ visibleRange' = FitContent(seriesData)
      ]_vars

\* after a second application of other data the range is still the one the
\* first application fitted
C26_Witness ==
    /\ applications.n = 2
    /\ firstFitDone
    /\ visibleRange.kind = "fit"
    /\ visibleRange # FitContent(seriesData)

\* the effect has handed data to the series
Handed == applications.n > 0

\* the curve builder returned fewer than two points
FewerThanTwo == Len(chart.data) < 2

(* C28: every data set handed to the equity series has at least two        *)
(* points, and when the curve builder returned fewer than two the set is   *)
(* the fallback: two points at the start equity, one second apart.         *)
C28_FallbackOneSecondApart ==
    Handed =>
        /\ Len(seriesData) >= 2
        /\ FewerThanTwo =>
               /\ Len(seriesData) = 2
               /\ \A i \in 1..2 : seriesData[i].value = Num(CHART_START_EQUITY)
               /\ seriesData[2].time = JsAdd(seriesData[1].time, Num(1))


---------------------------------------------------------------------------
(* The polling of DashboardPage: load, the effect that loads once at mount *)
(* and then starts a burst, the burst effect with its interval timer, and  *)
(* the Refresh button.  Time is counted in steps of one interval; a call   *)
(* of fetchState settles, with the payload or with an error, within        *)
(* MaxLatencyTicks steps, and the calls settle in any order.               *)

\* a call of fetchState settles before so many intervals have passed
MaxLatencyTicks == 2
\* bursts in one behaviour: the one started at mount and those the user starts
MaxBursts == 2
\* seconds the model follows the page while no timer is set
MaxIdleTicks == 2

AUTO_BURST_SECONDS == 30
AUTO_BURST_INTERVAL_MS == 1000

\* what the polling leaves alone
beyondPolling == << pc, trades, chart, localTrades, analyticsTrades, tradesMerged,
                    rawSide, sideOnce, sideTwice, againVars, pagesVars, chartVars >>

\* a call of fetchState made at instant at
Fetch(id, at, initial) == [id |-> id, at |-> at, initial |-> initial]

\* load() is called: one more call of fetchState is under way
LoadCalled(initial, at) ==
    /\ issued' = issued + 1
    /\ inflight' = inflight \cup { Fetch(issued + 1, at, initial) }

\* no call of fetchState takes longer than MaxLatencyTicks intervals: the clock
\* may go on to instant t only if every call under way is younger then
MayPass(t) ==
    \A f \in inflight : t - f.at < MaxLatencyTicks * AUTO_BURST_INTERVAL_MS

\* the interval timer of the current burst is set
TimerSet == burst.n \in intervals

BurstOver_late(n) == n > AUTO_BURST_SECONDS

\* ticks >= AUTO_BURST_SECONDS
BurstOver(n) == n >= AUTO_BURST_SECONDS

\* the page right after mount: the first effect has called load(), the burst
\* effect has run for isAutoBurst = false and returned
InitShell ==
    /\ pc = "shell"
    /\ nowMs = AUTO_BURST_INTERVAL_MS
    /\ mounted = TRUE
    /\ cancelled = FALSE
    /\ pageState = 0
    /\ error = FALSE
    /\ lastUpdated = 0
    /\ isAutoBurst = FALSE
    /\ effectFor = FALSE
    /\ intervals = {}
    /\ ticks = 0
    /\ issued = 1
    /\ inflight = { Fetch(1, nowMs, TRUE) }
    /\ newestApplied = 0
    /\ burst = NoBurst
    /\ idle = 0
    /\ trades = << >>
    /\ chart = NoChart
    /\ localTrades = << >>
    /\ analyticsTrades = << >>
    /\ tradesMerged = << >>
    /\ rawSide = Undefined
    /\ sideOnce = << >>
    /\ sideTwice = << >>
    /\ NoSecondCall
    /\ NoPages
    /\ NoChartView

\* after await load() the first effect goes on to setIsAutoBurst(true)
AfterLoad(f) == IF f.initial THEN TRUE ELSE isAutoBurst

\* fetchState resolves: the try branch of load
LoadSucceeds ==
    /\ pc = "shell"
    /\ \E f \in inflight :
           /\ inflight' = inflight \ { f }
           /\ pageState' = f.id
           /\ error' = FALSE
           /\ lastUpdated' = nowMs
           /\ isAutoBurst' = AfterLoad(f)
           /\ newestApplied' = Max2(newestApplied, f.id)
    /\ UNCHANGED << nowMs, effectFor, intervals, ticks, issued, burst, idle,
                    mounted, cancelled, beyondPolling >>

\* fetchState rejects (network error, non-OK response): the catch branch of load
LoadFails ==
    /\ pc = "shell"
    /\ \E f \in inflight :
           /\ inflight' = inflight \ { f }
           /\ error' = TRUE
           /\ isAutoBurst' = AfterLoad(f)
           /\ newestApplied' = Max2(newestApplied, f.id)
    /\ UNCHANGED << nowMs, pageState, lastUpdated, effectFor, intervals, ticks,
                    issued, burst, idle, mounted, cancelled, beyondPolling >>

\* the burst effect runs for isAutoBurst = true: one load at once, and the timer
StartBurst ==
    /\ pc = "shell"
    /\ isAutoBurst /\ ~effectFor
    /\ effectFor' = TRUE
    /\ ticks' = 0
    /\ LoadCalled(FALSE, nowMs)
    /\ intervals' = intervals \cup { burst.n + 1 }
    /\ burst' = [n |-> burst.n + 1, start |-> nowMs, fetches |-> 1, lastAt |-> nowMs]
    /\ idle' = 0
    /\ UNCHANGED << nowMs, pageState, error, lastUpdated, isAutoBurst, newestApplied,
                    mounted, cancelled, beyondPolling >>

\* isAutoBurst went back to false: the cleanup of the burst effect runs, and the
\* effect for false returns at once
CleanupBurst ==
    /\ pc = "shell"
    /\ ~isAutoBurst /\ effectFor
    /\ effectFor' = FALSE
    /\ intervals' = intervals \ { burst.n }
    /\ UNCHANGED << nowMs, pageState, error, lastUpdated, isAutoBurst, ticks, inflight,
                    issued, newestApplied, burst, idle, mounted, cancelled, beyondPolling >>

\* the interval fires, the burst is not over: load()
IntervalTickLoads ==
    /\ pc = "shell"
    /\ TimerSet
    /\ MayPass(nowMs + AUTO_BURST_INTERVAL_MS)
    /\ ~BurstOver(ticks + 1)
    /\ nowMs' = nowMs + AUTO_BURST_INTERVAL_MS
    /\ ticks' = ticks + 1
    /\ LoadCalled(FALSE, nowMs')
    /\ burst' = [burst EXCEPT !.fetches = @ + 1, !.lastAt = nowMs']
    /\ UNCHANGED << pageState, error, lastUpdated, isAutoBurst, effectFor, intervals,
                    newestApplied, idle, mounted, cancelled, beyondPolling >>

\* the interval fires for the AUTO_BURST_SECONDS-th time: clearInterval,
\* setIsAutoBurst(false), and no load
IntervalTickEnds ==
    /\ pc = "shell"
    /\ TimerSet
    /\ MayPass(nowMs + AUTO_BURST_INTERVAL_MS)
    /\ BurstOver(ticks + 1)
    /\ nowMs' = nowMs + AUTO_BURST_INTERVAL_MS
    /\ ticks' = ticks + 1
    /\ intervals' = intervals \ { burst.n }
    /\ isAutoBurst' = FALSE
    /\ UNCHANGED << pageState, error, lastUpdated, effectFor, inflight, issued,
                    newestApplied, burst, idle, mounted, cancelled, beyondPolling >>

\* a second passes while no timer is set
ShellTimePasses ==
    /\ pc = "shell"
    /\ intervals = {}
    /\ effectFor = isAutoBurst
    /\ idle < MaxIdleTicks
    /\ MayPass(nowMs + AUTO_BURST_INTERVAL_MS)
    /\ nowMs' = nowMs + AUTO_BURST_INTERVAL_MS
    /\ idle' = idle + 1
    /\ UNCHANGED << pageState, error, lastUpdated, isAutoBurst, effectFor, intervals,
                    ticks, inflight, issued, newestApplied, burst, mounted, cancelled,
                    beyondPolling >>

\* the Refresh button, which the page has once state is set and which is
\* disabled during a burst
ClickRefresh ==
    /\ pc = "shell"
    /\ pageState # 0
    /\ ~isAutoBurst
    /\ effectFor = isAutoBurst
    /\ burst.n < MaxBursts
    /\ isAutoBurst' = TRUE
    /\ UNCHANGED << nowMs, pageState, error, lastUpdated, effectFor, intervals, ticks,
                    inflight, issued, newestApplied, burst, idle, mounted, cancelled,
                    beyondPolling >>

NextShell ==
    \/ LoadSucceeds \/ LoadFails \/ StartBurst \/ CleanupBurst
    \/ IntervalTickLoads \/ IntervalTickEnds \/ ShellTimePasses \/ ClickRefresh

SpecShell == InitShell /\ [][NextShell]_vars


\* a further call of fetchState will be made without the user doing anything:
\* the load of the mount effect is under way (a burst follows it), a burst is
\* about to start, or the timer is set and its next tick loads
FetchAhead ==
    \/ \E f \in inflight : f.initial
    \/ isAutoBurst /\ ~effectFor
    \/ TimerSet /\ ~BurstOver(ticks + 1)

(* C21: polling never stops while the page is mounted: at every moment a    *)
(* further fetch lies ahead that needs no action of the user.              *)
C21_PollingNeverStops == mounted => FetchAhead

\* the "Cannot reach bot" screen is rendered: error && !state
CannotReachBotShown == error /\ pageState = 0

(* C22: while the last settled fetch is a failed one the page shows the    *)
(* "Cannot reach bot" message, also when an earlier fetch had succeeded,   *)
(* and once a fetch has succeeded after it the message is gone.            *)
C22_FailureShown == CannotReachBotShown <=> error

C27_NoRollback ==
    [][\A f \in inflight :
           (f \notin inflight' /\ f.id < newestApplied) =>
               UNCHANGED << pageState, error, lastUpdated >>]_vars


---------------------------------------------------------------------------
(* The older page (src/unnamed/part_000): one effect that loads at mount,  *)
(* sets an interval of POLL_MS that loads again, and on unmount sets       *)
(* cancelled and clears the interval.  Time is counted in seconds.         *)

\* seconds the model follows the older page
MaxPollSeconds == 12

POLL_MS == 5000

\* one second
PollClockStep == POLL_MS \div 5

PollApplies_always(c) == TRUE

\* if (!cancelled)
PollApplies(c) == ~c

\* the older page right after mount: load() called, the interval set
InitPoll ==
    /\ pc = "poll"
    /\ nowMs = PollClockStep
    /\ mounted = TRUE
    /\ cancelled = FALSE
    /\ pageState = 0
    /\ error = FALSE
    /\ lastUpdated = 0
    /\ isAutoBurst = FALSE
    /\ effectFor = FALSE
    /\ intervals = { 1 }
    /\ ticks = 0
    /\ issued = 1
    /\ inflight = { Fetch(1, nowMs, TRUE) }
    /\ newestApplied = 0
    /\ burst = [n |-> 1, start |-> nowMs, fetches |-> 1, lastAt |-> nowMs]
    /\ idle = 0
    /\ trades = << >>
    /\ chart = NoChart
    /\ localTrades = << >>
    /\ analyticsTrades = << >>
    /\ tradesMerged = << >>
    /\ rawSide = Undefined
    /\ sideOnce = << >>
    /\ sideTwice = << >>
    /\ NoSecondCall
    /\ NoPages
    /\ NoChartView

\* fetchState resolves: the try branch of the older load
PollLoadSucceeds ==
    /\ pc = "poll"
    /\ \E f \in inflight :
           /\ inflight' = inflight \ { f }
           /\ IF PollApplies(cancelled)
              THEN /\ pageState' = f.id
                   /\ error' = FALSE
                   /\ lastUpdated' = nowMs
                   /\ newestApplied' = Max2(newestApplied, f.id)
              ELSE UNCHANGED << pageState, error, lastUpdated, newestApplied >>
    /\ UNCHANGED << nowMs, isAutoBurst, effectFor, intervals, ticks, issued, burst,
                    idle, mounted, cancelled, beyondPolling >>

\* fetchState rejects: the catch branch of the older load
PollLoadFails ==
    /\ pc = "poll"
    /\ \E f \in inflight :
           /\ inflight' = inflight \ { f }
           /\ IF PollApplies(cancelled)
              THEN /\ error' = TRUE
                   /\ newestApplied' = Max2(newestApplied, f.id)
              ELSE UNCHANGED << error, newestApplied >>
    /\ UNCHANGED << nowMs, pageState, lastUpdated, isAutoBurst, effectFor, intervals,
                    ticks, issued, burst, idle, mounted, cancelled, beyondPolling >>

\* the interval fires POLL_MS after the last load: load()
PollTick ==
    /\ pc = "poll"
    /\ intervals # {}
    /\ nowMs = burst.lastAt + POLL_MS
    /\ ticks' = ticks + 1
    /\ LoadCalled(FALSE, nowMs)
    /\ burst' = [burst EXCEPT !.fetches = @ + 1, !.lastAt = nowMs]
    /\ UNCHANGED << nowMs, pageState, error, lastUpdated, isAutoBurst, effectFor,
                    intervals, newestApplied, idle, mounted, cancelled, beyondPolling >>

\* a second passes; a firing of the interval that is due comes first
PollTimePasses ==
    /\ pc = "poll"
    /\ intervals # {} => nowMs < burst.lastAt + POLL_MS
    /\ nowMs + PollClockStep <= burst.start + MaxPollSeconds * PollClockStep
    /\ MayPass(nowMs + PollClockStep)
    /\ nowMs' = nowMs + PollClockStep
    /\ UNCHANGED << pageState, error, lastUpdated, isAutoBurst, effectFor, intervals,
                    ticks, inflight, issued, newestApplied, burst, idle, mounted,
                    cancelled, beyondPolling >>

\* the page is unmounted: the cleanup of the effect
Unmount ==
    /\ pc = "poll"
    /\ mounted
    /\ mounted' = FALSE
    /\ cancelled' = TRUE
    /\ intervals' = {}
    /\ UNCHANGED << nowMs, pageState, error, lastUpdated, isAutoBurst, effectFor,
                    ticks, inflight, issued, newestApplied, burst, idle, beyondPolling >>

NextPoll == PollLoadSucceeds \/ PollLoadFails \/ PollTick \/ PollTimePasses \/ Unmount

SpecPoll == InitPoll /\ [][NextPoll]_vars

\* the fetches made so far are one at mount and one every POLL_MS after it, and
\* while the page is mounted no more than POLL_MS have passed since the last
PolledOnSchedule ==
    /\ issued >= 1
    /\ burst.lastAt = burst.start + (issued - 1) * POLL_MS
    /\ mounted => nowMs - burst.lastAt <= POLL_MS

===========================================================================
